---------------------------- MODULE Spec2Model ----------------------------
(***************************************************************************)
(* Model of the ai-service forecasting core of the ERP system:             *)
(*   app/models/forecaster.py  DemandForecaster, StockOptimizer,           *)
(*                             SeasonalAnalyzer                            *)
(*   app/routes/forecast.py    the endpoints that call them                *)
(*                                                                         *)
(* Numbers.  The program computes with IEEE doubles.  The model computes   *)
(* with fixed-point numbers: a real r is the integer r * Scale, and every  *)
(* product, quotient and square root rounds to the nearest representable   *)
(* value, as every float operation does (at a coarser grain).  Python's    *)
(* round(x, n) is modelled by what it does: round-half-to-even to n        *)
(* decimals.  An Optional[float] is <<>> for None and <<x>> for x.         *)
(***************************************************************************)
EXTENDS Integers, Sequences, FiniteSets, TLC

VARIABLES
    alpha,      \* DemandForecaster.alpha  (fixed point)
    beta,       \* DemandForecaster.beta   (fixed point)
    op,         \* the operation that ran last ("idle" after construction)
    args,       \* its arguments
    ret         \* what it returned

vars == <<alpha, beta, op, args, ret>>

-----------------------------------------------------------------------------
(* Fixed-point arithmetic *)

\* 1.0 in fixed point: three decimals
Scale == 10 * 10 * 10

\* Optional[float]: None, and a value that is present
None == <<>>

Some(x) == <<x>>

\* no exception was raised
NoExc == "None"

\* what a call that may raise gives back: the exception's name, or None and
\* the value returned
Raised(name) == [exc |-> name]

Returned(value) == [exc |-> NoExc, value |-> value]

Max(a, b) == IF a >= b THEN a ELSE b

Abs(a) == IF a >= 0 THEN a ELSE 0 - a

\* n / d rounded to the nearest integer (d > 0)
DivRound(n, d) == (2 * n + d) \div (2 * d)

\* float product a * b: (a * b) / Scale rounded to the nearest,
\* computed on the integer and fractional parts so that the product fits
Mul(a, b) ==
    LET a1 == a \div Scale
        a0 == a % Scale
        b1 == b \div Scale
        b0 == b % Scale
    IN a1 * b1 * Scale + a1 * b0 + a0 * b1 + DivRound(a0 * b0, Scale)

\* float quotient a / b, b # 0 (split so that the scaled numerator fits)
Div(a, b) ==
    LET n == IF b > 0 THEN a ELSE 0 - a
        d == Abs(b)
    IN (n \div d) * Scale + DivRound((n % d) * Scale, d)

RECURSIVE ISqrtSearch(_, _, _)
\* the largest r in lo..hi with r * r <= n
ISqrtSearch(n, lo, hi) ==
    IF lo >= hi THEN lo
    ELSE LET mid == (lo + hi + 1) \div 2
         IN IF mid * mid <= n THEN ISqrtSearch(n, mid, hi)
            ELSE ISqrtSearch(n, lo, mid - 1)

\* floor of the square root of a natural number below 2^31
ISqrt(n) == ISqrtSearch(n, 0, 46340)

\* np.sqrt(x) for x >= 0: sqrt(x/Scale)*Scale = sqrt(x*Scale); large arguments
\* lose one digit so that the product fits
Sqrt(x) ==
    IF x <= 2000000 THEN ISqrt(x * Scale)
    ELSE ISqrt(x \div 10) * 100

\* Python round(x, ndigits), ndigits given by the unit it rounds to
\* (10 = 2 decimals, 100 = 1 decimal, Scale = 0 decimals): half to even
RoundTo(x, unit) ==
    LET q == x \div unit
        r == x % unit
    IN IF 2 * r < unit THEN q * unit
       ELSE IF 2 * r > unit THEN (q + 1) * unit
       ELSE IF q % 2 = 0 THEN q * unit ELSE (q + 1) * unit

Round2(x) == RoundTo(x, 10)

Round1(x) == RoundTo(x, 100)

Round0(x) == RoundTo(x, Scale)

-----------------------------------------------------------------------------
(* DemandForecaster *)

\* mutant: level is overwritten before trend is computed from it
SmoothStep_LevelFirst(value, level, trend) ==
    LET new_level == Mul(alpha, value) + Mul(Scale - alpha, level + trend)
    IN [level |-> new_level,
        trend |-> Mul(beta, new_level - new_level) + Mul(Scale - beta, trend)]

\* the loop body, lines 111-113, for one value of data
SmoothStep(value, level, trend) ==
    LET new_level == Mul(alpha, value) + Mul(Scale - alpha, level + trend)
    IN [level |-> new_level,
        trend |-> Mul(beta, new_level - level) + Mul(Scale - beta, trend)]

\* the smoothing loop, lines 110-113, from Python index i to the end of data
\* (s ranges over a singleton so that each step's values are computed before
\* the next step starts)
RECURSIVE SmoothLoop(_, _, _, _)
SmoothLoop(data, i, level, trend) ==
    IF i >= Len(data) THEN [level |-> level, trend |-> trend]
    ELSE CHOOSE r \in {SmoothLoop(data, i + 1, s.level, s.trend) :
                          s \in {SmoothStep(data[i + 1], level, trend)}} : TRUE

\* the forecast loop, lines 116-119
ForecastLoop(level, trend, forecast_periods) ==
    [i \in 1..forecast_periods |-> Max(0, level + i * trend)]

\* [x] * n, the list repetition of line 103
Repeat(x, n) == [i \in 1..n |-> x]

\* mutant: the short-series branch zero-fills whatever the series holds
double_exponential_smoothing_ZeroFill(data, forecast_periods) ==
    IF Len(data) < 2
    THEN [forecasts |-> Repeat(0, forecast_periods), level |-> 0, trend |-> 0]
    ELSE LET s == SmoothLoop(data, 1, data[1], data[2] - data[1])
         IN [forecasts |-> ForecastLoop(s.level, s.trend, forecast_periods),
             level |-> s.level,
             trend |-> s.trend]

double_exponential_smoothing(data, forecast_periods) ==
    IF Len(data) < 2
    THEN [forecasts |-> Repeat(IF data # <<>> THEN data[1] ELSE 0,
                               forecast_periods),
          level |-> IF data # <<>> THEN data[1] ELSE 0,
          trend |-> 0]
    ELSE LET s == SmoothLoop(data, 1, data[1], data[2] - data[1])
         IN [forecasts |-> ForecastLoop(s.level, s.trend, forecast_periods),
             level |-> s.level,
             trend |-> s.trend]

\* z_scores.get(confidence_level, 1.96), lines 141-142
ConfidenceZ(confidence_level) ==
    CASE confidence_level = 900 -> 1645
      [] confidence_level = 950 -> 1960
      [] confidence_level = 990 -> 2576
      [] OTHER -> 1960

\* line 147, for the 0-based index i of enumerate(forecasts)
Margin(z, historical_std, i) ==
    Mul(Mul(z, historical_std), Sqrt(Scale + i * 100))

\* mutant: the margin is subtracted on both sides
Interval_UpperMinus(forecast, margin) ==
    LET lower == Max(0, forecast - margin)
        upper == forecast - margin
    IN <<Round2(lower), Round2(upper)>>

\* lines 148-150: one (lower, upper) tuple
Interval(forecast, margin) ==
    LET lower == Max(0, forecast - margin)
        upper == forecast + margin
    IN <<Round2(lower), Round2(upper)>>

calculate_confidence_intervals(forecasts, historical_std, confidence_level) ==
    LET z == ConfidenceZ(confidence_level)
    IN [k \in 1..Len(forecasts) |->
            Interval(forecasts[k], Margin(z, historical_std, k - 1))]

-----------------------------------------------------------------------------
(* Dates.  A datetime is the number of its day, day 0 being 2023-01-01; the   *)
(* time of day plays no part, since only whole days are added and only the   *)
(* date is formatted.                                                        *)

EpochYear == 2023

IsLeap(y) == (y % 4 = 0 /\ y % 100 # 0) \/ y % 400 = 0

DaysInYear(y) == IF IsLeap(y) THEN 366 ELSE 365

DaysInMonth(y, m) ==
    IF m = 2 THEN (IF IsLeap(y) THEN 29 ELSE 28)
    ELSE IF m \in {4, 6, 9, 11} THEN 30 ELSE 31

RECURSIVE YearAndDay(_, _)
\* the year of day number d counted from 1 January of year y, and the 0-based
\* day within it
YearAndDay(y, d) ==
    IF d < DaysInYear(y) THEN <<y, d>> ELSE YearAndDay(y + 1, d - DaysInYear(y))

RECURSIVE MonthAndDay(_, _, _)
MonthAndDay(y, m, d) ==
    IF d < DaysInMonth(y, m) THEN <<m, d + 1>>
    ELSE MonthAndDay(y, m + 1, d - DaysInMonth(y, m))

\* date.strftime("%Y-%m-%d"): the year, month and day of the text
Strftime(date) ==
    LET yd == YearAndDay(EpochYear, date)
        md == MonthAndDay(yd[1], 1, yd[2])
    IN <<yd[1], md[1], md[2]>>

\* date.weekday(): Monday is 0; 2023-01-01 was a Sunday
Weekday(date) == (date + 6) % 7

\* date.timetuple().tm_yday
DayOfYear(date) == YearAndDay(EpochYear, date)[2] + 1

\* np.sin(2 * np.pi * k / 30) for k = 0..29, to three decimals
SinTable ==
    <<0, 208, 407, 588, 743, 866, 951, 995, 995, 951, 866, 743, 588, 407, 208,
      0, 0 - 208, 0 - 407, 0 - 588, 0 - 743, 0 - 866, 0 - 951, 0 - 995, 0 - 995,
      0 - 951, 0 - 866, 0 - 743, 0 - 588, 0 - 407, 0 - 208>>

\* np.sin(2 * np.pi * day_of_year / 30), line 73
SinMonthly(day_of_year) == SinTable[(day_of_year % 30) + 1]

-----------------------------------------------------------------------------
(* DemandForecaster.generate_synthetic_history and forecast *)

\* the n-th outcome (n = 0, 1, ...) of np.random.normal(0, 1) in a call: the
\* stream `noise` of outcomes is read in order, from `offset`, and repeats
NormalDraw(noise, offset, n) == noise[((offset + n) % Len(noise)) + 1]

\* lines 58-83: the point of index i
HistoryPoint(i, start_date, base_demand, trend, seasonality_amplitude, noise_std, weekly_pattern, draw) ==
    LET date == start_date + i
        day_of_week == Weekday(date)
        d1 == base_demand + trend * i
        d2 == IF weekly_pattern
              THEN (IF day_of_week < 5 THEN Mul(d1, 1100) ELSE Mul(d1, 800))
              ELSE d1
        d3 == d2 + Mul(seasonality_amplitude, SinMonthly(DayOfYear(date)))
        d4 == d3 + Mul(noise_std, draw)
        demand == Max(0, d4)
    IN [date |-> Strftime(date),
        demand |-> Round2(demand),
        day_of_week |-> day_of_week]

\* now is the outcome of datetime.now() at line 55
generate_synthetic_history(days, base_demand, trend, seasonality_amplitude, noise_std, weekly_pattern, now, noise, offset) ==
    LET start_date == now - days
    IN [k \in 1..days |->
          HistoryPoint(k - 1, start_date, base_demand, trend, seasonality_amplitude,
                       noise_std, weekly_pattern,
                       NormalDraw(noise, offset, k - 1))]

\* the defaults of generate_synthetic_history's parameters, lines 35-38
DefaultTrend == 500

DefaultSeasonalityAmplitude == 20000

DefaultNoiseStd == 15000

RECURSIVE SumSeq(_, _)
\* the sum of the first n elements
SumSeq(xs, n) == IF n = 0 THEN 0 ELSE xs[n] + SumSeq(xs, n - 1)

\* np.mean of a non-empty list
Mean(xs) == DivRound(SumSeq(xs, Len(xs)), Len(xs))

\* the squared deviations from m
SquaredDeviations(xs, m) == [k \in 1..Len(xs) |-> Mul(xs[k] - m, xs[k] - m)] \o <<>>

\* np.std of a non-empty list: the population standard deviation
Std(xs) == Sqrt(Mean(SquaredDeviations(xs, Mean(xs))))

SeqMax(xs) == CHOOSE x \in {xs[k] : k \in 1..Len(xs)} : \A k \in 1..Len(xs) : xs[k] <= x

SeqMin(xs) == CHOOSE x \in {xs[k] : k \in 1..Len(xs)} : \A k \in 1..Len(xs) : xs[k] >= x

\* mutant: the first forecast date is today
Prediction_FromToday(i, forecast, intervals, now) ==
    LET date == now + i
    IN IF intervals # None /\ intervals[1] # <<>>
       THEN [date |-> Strftime(date),
             predicted_demand |-> Round2(forecast),
             lower_bound |-> intervals[1][i + 1][1],
             upper_bound |-> intervals[1][i + 1][2]]
       ELSE [date |-> Strftime(date),
             predicted_demand |-> Round2(forecast)]

\* lines 198-209: the prediction of index i; now is the outcome of
\* datetime.now() at line 198; intervals is None or the list, and an empty
\* list is false at line 206
Prediction(i, forecast, intervals, now) ==
    LET start_date == now + 1
        date == start_date + i
    IN IF intervals # None /\ intervals[1] # <<>>
       THEN [date |-> Strftime(date),
             predicted_demand |-> Round2(forecast),
             lower_bound |-> intervals[1][i + 1][1],
             upper_bound |-> intervals[1][i + 1][2]]
       ELSE [date |-> Strftime(date),
             predicted_demand |-> Round2(forecast)]

\* lines 196-232: the result, from the values lines 180-194 computed
ForecastResult(history_days, demand_values, historical_std, historical_mean, des, intervals, now, r2_draw) ==
    [exc |-> NoExc,
     predictions |->
        [k \in 1..Len(des.forecasts) |->
            Prediction(k - 1, des.forecasts[k], intervals, now)],
     model_metrics |->
        [mae |-> Round2(Mul(historical_std, 700)),
         mse |-> Round2(Mul(Mul(historical_std, 700), Mul(historical_std, 700))),
         r2 |-> 750 + r2_draw,
         historical_mean |-> Round2(historical_mean),
         historical_std |-> Round2(historical_std),
         trend |-> des.trend],
     history_summary |->
        [days_analyzed |-> history_days,
         mean_demand |-> Round2(historical_mean),
         max_demand |-> Round2(SeqMax(demand_values)),
         min_demand |-> Round2(SeqMin(demand_values))]]

\* lines 190-194: intervals is the list when include_confidence, else None
ForecastIntervals(history_days, demand_values, historical_std, historical_mean, des, include_confidence, now, r2_draw) ==
    ForecastResult(history_days, demand_values, historical_std, historical_mean, des,
        IF include_confidence
        THEN Some(calculate_confidence_intervals(des.forecasts, historical_std, 950))
        ELSE None,
        now, r2_draw)

\* lines 181-188, for a non-empty history
ForecastFrom(forecast_days, include_confidence, history_days, demand_values, now, r2_draw) ==
    ForecastIntervals(history_days, demand_values, Std(demand_values),
        Mean(demand_values),
        double_exponential_smoothing(demand_values, forecast_days),
        include_confidence, now, r2_draw)

\* line 180; the concatenation makes the list a tuple of computed values
DemandValues(history) == [k \in 1..Len(history) |-> history[k].demand] \o <<>>

\* env holds what the call reads from its environment: the clock at line 55
\* (now_history) and at line 198 (now_forecast), the stream of normal
\* outcomes with the place the call starts reading it (noise, offset), and the
\* outcome of np.random.uniform(0, 0.15) at line 214 (r2_draw).
\* With an empty history line 229, max(demand_values), raises ValueError.
forecast(forecast_days, include_confidence, history_days, base_demand, env) ==
    IF history_days <= 0 THEN Raised("ValueError")
    ELSE ForecastFrom(forecast_days, include_confidence, history_days,
            DemandValues(generate_synthetic_history(history_days, base_demand,
                DefaultTrend, DefaultSeasonalityAmplitude, DefaultNoiseStd,
                TRUE, env.now_history, env.noise, env.offset)),
            env.now_forecast, env.r2_draw)

-----------------------------------------------------------------------------
(* routes/forecast.py: bulk_forecast *)

\* str(uuid): the text of a UUID
UuidStr(uuid) == <<"uuid", uuid>>

\* history_days of the per-item call, line 226
BulkHistoryDays == 60

\* line 227: base_demand = 50 + (hash(str(product_id)) % 100); hash_mod is
\* the residue, which Python keeps in 0..99
BulkBaseDemand(hash_mod) == (50 + hash_mod) * Scale

\* lines 231-242: the entry of a forecast that returned
PredictedDemands(predictions) ==
    [k \in 1..Len(predictions) |-> predictions[k].predicted_demand] \o <<>>

\* lines 233-242, total_forecast being the sum of line 232
SuccessSummary(product_id, forecast_days, n_predictions, total_forecast, trend) ==
    [product_id |-> UuidStr(product_id),
     forecast_days |-> forecast_days,
     total_forecasted_demand |-> Round0(total_forecast),
     avg_daily_demand |-> Round2(IF n_predictions # 0
                                 THEN DivRound(total_forecast, n_predictions)
                                 ELSE 0),
     trend |-> trend,
     status |-> "success"]

SuccessEntry(product_id, forecast_days, forecast_result) ==
    SuccessSummary(product_id, forecast_days, Len(forecast_result.predictions),
        SumSeq(PredictedDemands(forecast_result.predictions),
               Len(forecast_result.predictions)),
        forecast_result.model_metrics.trend)

\* lines 243-249: the entry of a forecast that raised
ErrorEntry(product_id, exc) ==
    [product_id |-> UuidStr(product_id), status |-> "error", error |-> exc]

\* what forecaster.forecast gives for the item at position k: env.faults holds
\* the positions at which the call raises (an Exception from inside the
\* forecaster, whatever its cause); n_done forecasts have read the noise
\* stream before this one
ItemForecast(request, env, k, n_done) ==
    IF k \in env.faults THEN Raised("Exception")
    ELSE forecast(request.forecast_days, FALSE, BulkHistoryDays,
                  BulkBaseDemand(env.hash_mod[request.product_ids[k]]),
                  [now_history |-> env.now_history,
                   now_forecast |-> env.now_forecast,
                   noise |-> env.noise,
                   offset |-> n_done * BulkHistoryDays,
                   r2_draw |-> env.r2_draw])

\* lines 222-249: the entry of one item, f being what its forecast gave
BulkEntry(product_id, forecast_days, f) ==
    IF f.exc # NoExc THEN ErrorEntry(product_id, f.exc)
    ELSE SuccessEntry(product_id, forecast_days, f)

RECURSIVE BulkLoop_Abort(_, _, _, _, _)
\* mutant: no try around the item, so the first failure ends the loop
BulkLoop_Abort(request, env, k, n_done, results) ==
    IF k > Len(request.product_ids) THEN results
    ELSE CHOOSE r \in
            {IF e.status = "error" THEN results
             ELSE BulkLoop_Abort(request, env, k + 1, n_done + 1, Append(results, e)) :
                e \in {BulkEntry(request.product_ids[k], request.forecast_days,
                                 ItemForecast(request, env, k, n_done))}} : TRUE

RECURSIVE BulkLoop(_, _, _, _, _)
\* lines 221-249, from the item at position k (e ranges over a singleton so
\* that an item's entry is computed before the next item starts)
BulkLoop(request, env, k, n_done, results) ==
    IF k > Len(request.product_ids) THEN results
    ELSE CHOOSE r \in
            {BulkLoop(request, env, k + 1,
                      IF e.status = "error" THEN n_done ELSE n_done + 1,
                      Append(results, e)) :
                e \in {BulkEntry(request.product_ids[k], request.forecast_days,
                                 ItemForecast(request, env, k, n_done))}} : TRUE

\* line 251
SuccessCount(results) ==
    Cardinality({k \in 1..Len(results) : results[k].status = "success"})

\* lines 251-260
BulkResponse(request, results) ==
    [exc |-> NoExc,
     tenant_id |-> UuidStr(request.tenant_id),
     forecast_days |-> request.forecast_days,
     total_products |-> Len(request.product_ids),
     successful |-> SuccessCount(results),
     failed |-> Len(request.product_ids) - SuccessCount(results),
     results |-> results]

bulk_forecast(request, env) ==
    BulkResponse(request, BulkLoop(request, env, 1, 0, <<>>))

-----------------------------------------------------------------------------
(* StockOptimizer *)

\* np.nan, the value of np.sqrt of a negative number: an integer that no
\* result of the arithmetic equals.  The program never compares the one value
\* that can hold it (the order quantity), and nan >= 0 is false as in IEEE.
NaN == 0 - 2147483647

\* Python truthiness of an Optional[float]: None and 0 are false
Truthy(x) == x # None /\ x[1] # 0

\* mutant: the table of calculate_confidence_intervals is used
ServiceZ_ConfidenceTable(service_level) ==
    CASE service_level = 900 -> 1645
      [] service_level = 950 -> 1960
      [] service_level = 990 -> 2576
      [] OTHER -> 1960

\* z_scores.get(service_level, 1.65), lines 261-266
ServiceZ(service_level) ==
    CASE service_level = 900 -> 1280
      [] service_level = 950 -> 1650
      [] service_level = 990 -> 2330
      [] OTHER -> 1650

\* lead_time_days >= 0
calculate_safety_stock(daily_demand_std, lead_time_days, service_level) ==
    LET z == ServiceZ(service_level)
        safety_stock == Mul(Mul(z, daily_demand_std), Sqrt(lead_time_days * Scale))
    IN Round0(safety_stock)

\* mutant: the safety stock is subtracted
calculate_reorder_point_Minus(avg_daily_demand, lead_time_days, safety_stock) ==
    Round0(avg_daily_demand * lead_time_days - safety_stock)

calculate_reorder_point(avg_daily_demand, lead_time_days, safety_stock) ==
    Round0(avg_daily_demand * lead_time_days + safety_stock)

\* float('inf'), the quotient numpy gives a positive float64 divided by zero
Inf == 2147483647

\* mutant: a zero holding cost gives an order quantity of 0
calculate_eoq_GuardedZero(annual_demand, ordering_cost, holding_cost_rate, unit_cost, numpy) ==
    LET holding_cost == Mul(unit_cost, holding_cost_rate)
    IN IF holding_cost = 0 THEN Returned(0)
       ELSE LET q == Div(Mul(2 * annual_demand, ordering_cost), holding_cost)
            IN Returned(IF q < 0 THEN NaN ELSE Round0(Sqrt(q)))

\* lines 310-312; ordering_cost >= 0, holding_cost_rate >= 0. numpy tells
\* whether annual_demand is a numpy.float64 (as optimize passes when the demand
\* is the draw of line 336) or a Python float: the division of line 311 by a
\* zero holding cost raises ZeroDivisionError on Python floats, and on a
\* float64 numerator gives inf, -inf or nan with a RuntimeWarning, of which
\* np.sqrt gives inf or nan, which round(eoq, 0) returns unchanged
calculate_eoq(annual_demand, ordering_cost, holding_cost_rate, unit_cost, numpy) ==
    LET holding_cost == Mul(unit_cost, holding_cost_rate)
    IN IF holding_cost = 0
       THEN IF ~numpy THEN Raised("ZeroDivisionError")
            ELSE Returned(IF Mul(2 * annual_demand, ordering_cost) > 0
                          THEN Inf ELSE NaN)
       ELSE LET q == Div(Mul(2 * annual_demand, ordering_cost), holding_cost)
            IN Returned(IF q < 0 THEN NaN ELSE Round0(Sqrt(q)))

\* the defaults of calculate_eoq's parameters, lines 294-296
DefaultOrderingCost == 50000

DefaultHoldingCostRate == 250

DefaultUnitCost == 10000

\* mutant: the first threshold is tested with < instead of <=
Classify_StrictCritical(current_stock, reorder_point) ==
    IF current_stock < Mul(reorder_point, 500)
    THEN [status |-> "critical", risk_level |-> "high"]
    ELSE IF current_stock <= reorder_point
    THEN [status |-> "reorder_needed", risk_level |-> "medium"]
    ELSE IF current_stock <= Mul(reorder_point, 1500)
    THEN [status |-> "adequate", risk_level |-> "low"]
    ELSE [status |-> "overstocked", risk_level |-> "low"]

\* lines 352-363
Classify(current_stock, reorder_point) ==
    IF current_stock <= Mul(reorder_point, 500)
    THEN [status |-> "critical", risk_level |-> "high"]
    ELSE IF current_stock <= reorder_point
    THEN [status |-> "reorder_needed", risk_level |-> "medium"]
    ELSE IF current_stock <= Mul(reorder_point, 1500)
    THEN [status |-> "adequate", risk_level |-> "low"]
    ELSE [status |-> "overstocked", risk_level |-> "low"]

\* mutant: the days-of-stock line is appended only when an order is advised
Suggestions_NoDaysLine(status, eoq, reorder_point, days_of_stock) ==
    (CASE status = "critical" ->
            << <<"URGENT: Current stock critically low. Order immediately!", None>>,
               <<"Recommended order quantity: {eoq} units", Some(eoq)>> >>
       [] status = "reorder_needed" ->
            << <<"Stock has reached reorder point. Consider ordering soon.", None>>,
               <<"Recommended order quantity: {eoq} units", Some(eoq)>> >>
       [] status = "overstocked" ->
            << <<"Stock levels are high. Consider reducing next order.", None>>,
               <<"Review demand forecasts for potential changes.", None>> >>
       [] OTHER ->
            << <<"Stock levels are adequate.", None>>,
               <<"Plan next order when stock reaches {reorder_point} units.",
                 Some(reorder_point)>> >>)
    \o (IF status \in {"critical", "reorder_needed"}
        THEN << <<"Current days of stock: {days} days", Some(Round1(days_of_stock))>> >>
        ELSE <<>>)

\* lines 366-380: each f-string is its template and the value it formats
Suggestions(status, eoq, reorder_point, days_of_stock) ==
    (CASE status = "critical" ->
            << <<"URGENT: Current stock critically low. Order immediately!", None>>,
               <<"Recommended order quantity: {eoq} units", Some(eoq)>> >>
       [] status = "reorder_needed" ->
            << <<"Stock has reached reorder point. Consider ordering soon.", None>>,
               <<"Recommended order quantity: {eoq} units", Some(eoq)>> >>
       [] status = "overstocked" ->
            << <<"Stock levels are high. Consider reducing next order.", None>>,
               <<"Review demand forecasts for potential changes.", None>> >>
       [] OTHER ->
            << <<"Stock levels are adequate.", None>>,
               <<"Plan next order when stock reaches {reorder_point} units.",
                 Some(reorder_point)>> >>)
    \o << <<"Current days of stock: {days} days", Some(Round1(days_of_stock))>> >>

\* line 336: the demand the computation uses; uniform is the outcome of
\* np.random.uniform(10, 50), drawn only when the left operand is false
AvgDemand(avg_daily_demand, uniform) ==
    IF Truthy(avg_daily_demand) THEN avg_daily_demand[1] ELSE uniform[1]

\* line 337
StdDemand(demand_std, avg_demand) ==
    IF Truthy(demand_std) THEN demand_std[1] ELSE Mul(avg_demand, 300)

\* mutant: the magnitude of the stock is divided
DaysOfStock_Abs(current_stock, avg_demand) ==
    IF avg_demand > 0 THEN Div(Abs(current_stock), avg_demand) ELSE 999 * Scale

\* line 350
DaysOfStock(current_stock, avg_demand) ==
    IF avg_demand > 0 THEN Div(current_stock, avg_demand) ELSE 999 * Scale

optimize(current_stock, lead_time_days, service_level, avg_daily_demand, demand_std, uniform) ==
    LET avg_demand == AvgDemand(avg_daily_demand, uniform)
        std_demand == StdDemand(demand_std, avg_demand)
        safety_stock == calculate_safety_stock(std_demand, lead_time_days, service_level)
        reorder_point == calculate_reorder_point(avg_demand, lead_time_days, safety_stock)
        annual_demand == avg_demand * 365
        e == calculate_eoq(annual_demand, DefaultOrderingCost,
                           DefaultHoldingCostRate, DefaultUnitCost,
                           ~Truthy(avg_daily_demand))
        eoq == e.value
        days_of_stock == DaysOfStock(current_stock, avg_demand)
        c == Classify(current_stock, reorder_point)
    IN IF e.exc # NoExc THEN Raised(e.exc)
       ELSE [exc |-> NoExc,
             recommended_reorder_point |-> reorder_point,
             recommended_order_quantity |-> eoq,
             safety_stock |-> safety_stock,
             current_status |-> c.status,
             risk_level |-> c.risk_level,
             days_of_stock |-> Round1(days_of_stock),
             suggestions |-> Suggestions(c.status, eoq, reorder_point, days_of_stock),
             metrics |-> [avg_daily_demand |-> Round2(avg_demand),
                          demand_variability |-> Round2(std_demand),
                          service_level |-> service_level,
                          lead_time_days |-> lead_time_days]]

\* the largest lead_time_days StockOptimizationRequest admits, line 46 of
\* routes/forecast.py
MaxLeadTime == 90

\* lines 42-48 of routes/forecast.py: the requests the schema admits;
\* current_stock is any float
ValidRequest(request) ==
    /\ request.lead_time_days >= 1
    /\ request.lead_time_days <= MaxLeadTime
    /\ request.service_level >= 0
    /\ request.service_level <= Scale

\* optimize_stock, lines 131-168 of routes/forecast.py: optimize is called
\* without avg_daily_demand and demand_std, so the demand is the draw of
\* line 336; an exception becomes an HTTPException
optimize_stock(request, uniform) ==
    LET result == optimize(request.current_stock, request.lead_time_days,
                           request.service_level, None, None, uniform)
    IN IF result.exc # NoExc THEN Raised("HTTPException")
       ELSE [exc |-> NoExc,
             product_id |-> request.product_id,
             recommended_reorder_point |-> result.recommended_reorder_point,
             recommended_order_quantity |-> result.recommended_order_quantity,
             safety_stock |-> result.safety_stock,
             current_status |-> result.current_status,
             risk_level |-> result.risk_level,
             days_of_stock |-> result.days_of_stock,
             suggestions |-> result.suggestions,
             metrics |-> result.metrics]

-----------------------------------------------------------------------------
(* SeasonalAnalyzer *)

\* the keys of monthly_indices in the order the dict literal inserts them
MonthNames ==
    <<"January", "February", "March", "April", "May", "June", "July", "August",
      "September", "October", "November", "December">>

\* the base constants of lines 419-430
MonthBase == <<850, 880, 950, 1000, 1020, 950, 900, 1100, 1250, 1150, 1200, 1300>>

Months == 1..12

\* lines 418-431: jitter[m] is the outcome of month m's np.random.uniform
MonthlyIndices(jitter) == [m \in Months |-> MonthBase[m] + jitter[m]]

\* line 434: sorted(..., key = index, reverse = True) is stable, so months
\* with equal indices keep their dict order.  Rank(idx, m) is m's position.
Rank(idx, m) ==
    1 + Cardinality({m2 \in Months :
                       \/ idx[m2] > idx[m]
                       \/ (idx[m2] = idx[m] /\ m2 < m)})

SortedMonths(idx) == [k \in Months |-> CHOOSE m \in Months : Rank(idx, m) = k]

\* one {"month": m, "index": round(i, 2)} entry
SeasonEntry(idx, m) == [month |-> MonthNames[m], index |-> Round2(idx[m])]

\* lines 435-438: sorted_months[:3]
PeakSeasons(idx) ==
    LET sorted_months == SortedMonths(idx)
    IN [k \in 1..3 |-> SeasonEntry(idx, sorted_months[k])]

\* mutant: the slice starts one element early, sorted_months[-4:]
LowSeasons_FourTail(idx) ==
    LET sorted_months == SortedMonths(idx)
    IN [k \in 1..4 |-> SeasonEntry(idx, sorted_months[8 + k])]

\* lines 439-442: sorted_months[-3:]
LowSeasons(idx) ==
    LET sorted_months == SortedMonths(idx)
    IN [k \in 1..3 |-> SeasonEntry(idx, sorted_months[9 + k])]

\* lines 445-453
WeeklyPattern ==
    [Monday |-> 1050, Tuesday |-> 1100, Wednesday |-> 1080, Thursday |-> 1120,
     Friday |-> 1150, Saturday |-> 750, Sunday |-> 700]

\* round(yearly_trend * 100, 1): yearly_trend has three decimals here, so the
\* percentage has one
GrowthPercent(yearly_trend) == Round1(yearly_trend * 100)

\* years is accepted and not used
generate_seasonal_data(years, jitter, yearly_trend) ==
    LET monthly_indices == MonthlyIndices(jitter)
        peak_seasons == PeakSeasons(monthly_indices)
        low_seasons == LowSeasons(monthly_indices)
        rounded == [m \in Months |-> Round2(monthly_indices[m])]
    IN [seasonal_patterns |->
            << [type |-> "monthly", indices |-> rounded],
               [type |-> "weekly", indices |-> WeeklyPattern] >>,
        peak_seasons |-> peak_seasons,
        low_seasons |-> low_seasons,
        seasonality_indices |-> rounded,
        trend_analysis |->
            [annual_growth_rate |-> GrowthPercent(yearly_trend),
             trend_direction |-> IF yearly_trend > 0 THEN "increasing"
                                 ELSE "decreasing"],
        recommendations |->
            << <<"Peak demand expected in {month} (index: {index})",
                 peak_seasons[1].month, peak_seasons[1].index>>,
               <<"Consider building inventory before {month}",
                 peak_seasons[1].month>>,
               <<"Lowest demand in {month} - plan promotions",
                 low_seasons[1].month>>,
               <<"Annual growth trend: {rate}%", GrowthPercent(yearly_trend)>> >>]

-----------------------------------------------------------------------------
(* Inputs of the forecaster's pure functions *)

\* longest input series
MaxLen == 3

\* longest forecast horizon
MaxHorizon == 3

\* smoothing coefficients in [0, 1]: 0, 0.3 (the service's alpha), 1
CoeffSet == {0, 300, Scale}

\* values a series may hold: negative, zero, and positive ones
DataVals == {0 - 5000, 0, 7500}

\* forecast values handed to calculate_confidence_intervals; 1.234 and 1.236
\* are not multiples of 0.01
ForecastVals == {0 - 5000, 0, 1234, 1236}

\* historical_std >= 0
StdVals == {0, 1, 15000}

\* confidence levels: the three of the table and one that is not in it
ConfidenceVals == {900, 950, 990, 800}

SeqsUpTo(S, n) == UNION {[1..k -> S] : k \in 0..n}

\* DemandForecaster(alpha, beta), lines 20-29
InitForecaster ==
    /\ alpha \in CoeffSet
    /\ beta \in CoeffSet
    /\ op = "idle"
    /\ args = <<>>
    /\ ret = <<>>

Call_double_exponential_smoothing ==
    /\ op = "idle"
    /\ \E data \in SeqsUpTo(DataVals, MaxLen), forecast_periods \in 0..MaxHorizon :
          /\ op' = "double_exponential_smoothing"
          /\ args' = [data |-> data, forecast_periods |-> forecast_periods]
          /\ ret' = double_exponential_smoothing(data, forecast_periods)
    /\ UNCHANGED <<alpha, beta>>

Call_calculate_confidence_intervals ==
    /\ op = "idle"
    /\ \E forecasts \in SeqsUpTo(ForecastVals, MaxHorizon),
          historical_std \in StdVals, confidence_level \in ConfidenceVals :
          /\ op' = "calculate_confidence_intervals"
          /\ args' = [forecasts |-> forecasts, historical_std |-> historical_std,
                      confidence_level |-> confidence_level]
          /\ ret' = calculate_confidence_intervals(forecasts, historical_std,
                                                   confidence_level)
    /\ UNCHANGED <<alpha, beta>>

NextForecaster ==
    \/ Call_double_exponential_smoothing
    \/ Call_calculate_confidence_intervals

SpecForecaster == InitForecaster /\ [][NextForecaster]_vars

-----------------------------------------------------------------------------
(* Claims about the forecaster's pure functions *)

IsDES == op = "double_exponential_smoothing"

IsCI == op = "calculate_confidence_intervals"

\* C1 (as claimed): for a non-empty series and any horizon,
\* double_exponential_smoothing returns exactly `horizon` forecasts, each >= 0,
\* the length-1 branch included.
C1_ForecastsNonNegative ==
    (IsDES /\ Len(args.data) >= 1) =>
        /\ Len(ret.forecasts) = args.forecast_periods
        /\ \A k \in 1..Len(ret.forecasts) : ret.forecasts[k] >= 0

\* C2: a history of length 1 with value v gives forecasts that all equal v,
\* level v and trend 0, for every horizon.
C2_SingleValueConstant ==
    (IsDES /\ Len(args.data) = 1) =>
        /\ Len(ret.forecasts) = args.forecast_periods
        /\ \A k \in 1..Len(ret.forecasts) : ret.forecasts[k] = args.data[1]
        /\ ret.level = args.data[1]
        /\ ret.trend = 0

C2_Witness ==
    /\ IsDES
    /\ Len(args.data) = 1
    /\ args.data[1] = 7500
    /\ args.forecast_periods = MaxHorizon
    /\ ret.forecasts = Repeat(7500, MaxHorizon)

\* C3 (as claimed): every returned pair brackets the forecast it belongs to,
\* lower <= forecast[i] <= upper on the rounded bounds, and the margin does
\* not decrease with the index.
C3_Original ==
    IsCI =>
        /\ \A k \in 1..Len(ret) :
              ret[k][1] <= args.forecasts[k] /\ args.forecasts[k] <= ret[k][2]
        /\ \A k \in 1..MaxHorizon :
              Margin(ConfidenceZ(args.confidence_level), args.historical_std, k - 1)
                <= Margin(ConfidenceZ(args.confidence_level), args.historical_std, k)

\* C3 (amended): one pair per forecast; for a forecast >= 0 the returned
\* bounds bracket the forecast rounded to 2 decimals; and the margin
\* z * historical_std * sqrt(1 + 0.1 i) does not decrease with i.
C3_Amended ==
    IsCI =>
        /\ Len(ret) = Len(args.forecasts)
        /\ \A k \in 1..Len(ret) :
              args.forecasts[k] >= 0 =>
                 /\ ret[k][1] <= Round2(args.forecasts[k])
                 /\ Round2(args.forecasts[k]) <= ret[k][2]
        /\ \A k \in 1..MaxHorizon :
              Margin(ConfidenceZ(args.confidence_level), args.historical_std, k - 1)
                <= Margin(ConfidenceZ(args.confidence_level), args.historical_std, k)

C3_Witness ==
    /\ IsCI
    /\ Len(args.forecasts) = MaxHorizon
    /\ args.forecasts[1] = 1236
    /\ args.historical_std = 15000
    /\ args.confidence_level = 990
    /\ ret[1][1] = 0
    /\ ret[1][2] > 1236
    /\ ret[2][2] - Round2(args.forecasts[2]) > ret[1][2] - Round2(args.forecasts[1])

-----------------------------------------------------------------------------
(* Inputs of the stock optimizer *)

\* longest lead time
MaxLead == 7

\* service levels: the three of the table and one that is not in it
ServiceVals == {900, 950, 990, 500}

\* avg_daily_demand as a caller may give it: absent, 0, 0.01, 20, negative
AvgVals == {None, Some(0), Some(10), Some(20000), Some(0 - 10000)}

\* demand_std as a caller may give it: absent, 0, 6
DemandStdVals == {None, Some(0), Some(6000)}

\* outcomes of np.random.uniform(10, 50)
UniformVals == {Some(10000), Some(23456), Some(50000)}

\* current stock levels
StockVals == {0 - 1000, 0, 100000, 9990000}

\* safety stocks handed to calculate_reorder_point
SafetyVals == {0 - 3000, 0, 500, 26000}

\* the reorder point optimize computes from its other inputs
ReorderPointOf(lead_time_days, service_level, avg_daily_demand, demand_std, uniform) ==
    LET avg_demand == AvgDemand(avg_daily_demand, uniform)
        std_demand == StdDemand(demand_std, avg_demand)
    IN calculate_reorder_point(avg_demand, lead_time_days,
          calculate_safety_stock(std_demand, lead_time_days, service_level))

\* StockOptimizer(), lines 240-241; the forecaster is the service's, line 19 of
\* routes/forecast.py
InitOptimizer ==
    /\ alpha = 300
    /\ beta = 100
    /\ op = "idle"
    /\ args = <<>>
    /\ ret = <<>>

Call_calculate_safety_stock ==
    /\ op = "idle"
    /\ \E daily_demand_std \in {0 - 3000, 0, 6000},
          lead_time_days \in 0..MaxLead, service_level \in ServiceVals :
          /\ op' = "calculate_safety_stock"
          /\ args' = [daily_demand_std |-> daily_demand_std,
                      lead_time_days |-> lead_time_days,
                      service_level |-> service_level]
          /\ ret' = calculate_safety_stock(daily_demand_std, lead_time_days,
                                           service_level)
    /\ UNCHANGED <<alpha, beta>>

Call_calculate_reorder_point ==
    /\ op = "idle"
    /\ \E avg_daily_demand \in {0 - 10000, 0, 10, 12345, 20000},
          lead_time_days \in 0..MaxLead,
          safety_stock \in SafetyVals :
          /\ op' = "calculate_reorder_point"
          /\ args' = [avg_daily_demand |-> avg_daily_demand,
                      lead_time_days |-> lead_time_days,
                      safety_stock |-> safety_stock]
          /\ ret' = calculate_reorder_point(avg_daily_demand, lead_time_days,
                                            safety_stock)
    /\ UNCHANGED <<alpha, beta>>

\* annual demands, ordering costs, holding cost rates and unit costs handed to
\* calculate_eoq: the defaults of lines 294-296 and zeros
AnnualVals == {0 - 3650000, 0, 7300000}

HoldingRateVals == {0, DefaultHoldingCostRate}

UnitCostVals == {0, DefaultUnitCost}

Call_calculate_eoq ==
    /\ op = "idle"
    /\ \E annual_demand \in AnnualVals, ordering_cost \in {0, DefaultOrderingCost},
          holding_cost_rate \in HoldingRateVals, unit_cost \in UnitCostVals,
          numpy \in BOOLEAN :
          /\ op' = "calculate_eoq"
          /\ args' = [annual_demand |-> annual_demand,
                      ordering_cost |-> ordering_cost,
                      holding_cost_rate |-> holding_cost_rate,
                      unit_cost |-> unit_cost,
                      numpy |-> numpy]
          /\ ret' = calculate_eoq(annual_demand, ordering_cost, holding_cost_rate,
                                  unit_cost, numpy)
    /\ UNCHANGED <<alpha, beta>>

\* the random draw is part of the call only when line 336 makes it
Call_optimize ==
    /\ op = "idle"
    /\ \E lead_time_days \in 0..MaxLead, service_level \in ServiceVals,
          avg_daily_demand \in AvgVals, demand_std \in DemandStdVals :
        \E uniform \in IF Truthy(avg_daily_demand) THEN {None} ELSE UniformVals :
          \E current_stock \in StockVals \cup
                {10 * ReorderPointOf(lead_time_days, service_level,
                                     avg_daily_demand, demand_std, uniform)} :
            /\ op' = "optimize"
            /\ args' = [current_stock |-> current_stock,
                        lead_time_days |-> lead_time_days,
                        service_level |-> service_level,
                        avg_daily_demand |-> avg_daily_demand,
                        demand_std |-> demand_std,
                        uniform |-> uniform]
            /\ ret' = optimize(current_stock, lead_time_days, service_level,
                               avg_daily_demand, demand_std, uniform)
    /\ UNCHANGED <<alpha, beta>>

\* service levels a request may hold: the ends of [0, 1] and those of the table
RequestServiceVals == ServiceVals \cup {0, Scale}

\* current stocks a request may hold: a float, of either sign
RequestStockVals == StockVals \cup {0 - 40, 40, 166 * Scale}

\* a request the schema rejects does not reach the handler
Call_optimize_stock ==
    /\ op = "idle"
    /\ \E product_id \in {1}, tenant_id \in {1},
          current_stock \in RequestStockVals,
          lead_time_days \in (0..MaxLead) \cup {MaxLeadTime, MaxLeadTime + 1},
          service_level \in RequestServiceVals,
          uniform \in UniformVals :
          LET request == [product_id |-> product_id, tenant_id |-> tenant_id,
                          current_stock |-> current_stock,
                          lead_time_days |-> lead_time_days,
                          service_level |-> service_level]
          IN /\ ValidRequest(request)
             /\ op' = "optimize_stock"
             /\ args' = [request |-> request, uniform |-> uniform]
             /\ ret' = optimize_stock(request, uniform)
    /\ UNCHANGED <<alpha, beta>>

NextOptimizer ==
    \/ Call_calculate_safety_stock
    \/ Call_calculate_reorder_point
    \/ Call_calculate_eoq
    \/ Call_optimize
    \/ Call_optimize_stock

SpecOptimizer == InitOptimizer /\ [][NextOptimizer]_vars

-----------------------------------------------------------------------------
(* Claims about the stock optimizer *)

IsReorderPoint == op = "calculate_reorder_point"

IsOptimize == op = "optimize"

\* C4 (as claimed): calculate_reorder_point does not decrease when
\* lead_time_days grows, and does not decrease when safety_stock grows, the
\* other two inputs fixed, whatever they are.
C4_Original ==
    IsReorderPoint =>
        /\ \A l2 \in 0..MaxLead :
              l2 >= args.lead_time_days =>
                 calculate_reorder_point(args.avg_daily_demand, l2, args.safety_stock)
                    >= ret
        /\ \A s2 \in SafetyVals :
              s2 >= args.safety_stock =>
                 calculate_reorder_point(args.avg_daily_demand, args.lead_time_days, s2)
                    >= ret

\* C4 (amended): calculate_reorder_point does not decrease when safety_stock
\* grows, whatever the other inputs; it does not decrease when lead_time_days
\* grows provided avg_daily_demand >= 0.
C4_Amended ==
    IsReorderPoint =>
        /\ \A l2 \in 0..MaxLead :
              (l2 >= args.lead_time_days /\ args.avg_daily_demand >= 0) =>
                 calculate_reorder_point(args.avg_daily_demand, l2, args.safety_stock)
                    >= ret
        /\ \A s2 \in SafetyVals :
              s2 >= args.safety_stock =>
                 calculate_reorder_point(args.avg_daily_demand, args.lead_time_days, s2)
                    >= ret

C4_Witness ==
    /\ IsReorderPoint
    /\ args.avg_daily_demand = 12345
    /\ args.lead_time_days = 1
    /\ args.safety_stock = 500
    /\ ret = 13000
    /\ calculate_reorder_point(12345, MaxLead, 500) > ret
    /\ calculate_reorder_point(12345, 1, 26000) > ret

\* C5 (as claimed): whatever the other inputs, current_stock = 0 gives status
\* "critical", and current_stock = 10 x reorder_point gives "overstocked".
C5_Original ==
    (IsOptimize /\ ret.exc = NoExc) =>
        /\ args.current_stock = 0 => ret.current_status = "critical"
        /\ args.current_stock = 10 * ret.recommended_reorder_point
              => ret.current_status = "overstocked"

\* C5 (amended): current_stock = 0 gives "critical" when the computed reorder
\* point is >= 0, and current_stock = 10 x reorder_point gives "overstocked"
\* when the computed reorder point is > 0.
C5_Amended ==
    (IsOptimize /\ ret.exc = NoExc) =>
        /\ (args.current_stock = 0 /\ ret.recommended_reorder_point >= 0)
              => ret.current_status = "critical"
        /\ (args.current_stock = 10 * ret.recommended_reorder_point
            /\ ret.recommended_reorder_point > 0)
              => ret.current_status = "overstocked"

C5_Witness ==
    /\ IsOptimize
    /\ ret.exc = NoExc
    /\ ret.recommended_reorder_point > 0
    /\ args.current_stock = 10 * ret.recommended_reorder_point
    /\ ret.current_status = "overstocked"

IsExample6 ==
    /\ IsOptimize
    /\ args.current_stock = 0
    /\ args.lead_time_days = 7
    /\ args.service_level = 950
    /\ args.avg_daily_demand = Some(20000)
    /\ args.demand_std = Some(6000)

\* C6: optimize(0, 7, 0.95, 20, 6) returns safety_stock 26, reorder point 166,
\* status "critical", risk "high"; 26 is the integer nearest to
\* 1.65 * 6 * sqrt(7) (stated on the squares: (2*26 - 1)^2 <= 4 * 9.9^2 * 7
\* <= (2*26 + 1)^2) and 166 = 20 * 7 + 26.
C6_Example ==
    IsExample6 =>
        /\ ret.exc = NoExc
        /\ ret.safety_stock = 26 * Scale
        /\ ret.recommended_reorder_point = 166 * Scale
        /\ ret.current_status = "critical"
        /\ ret.risk_level = "high"
        /\ LET n == ret.safety_stock \div Scale
           IN /\ (2 * n - 1) * (2 * n - 1) * 100 <= 4 * 99 * 99 * 7
              /\ 4 * 99 * 99 * 7 <= (2 * n + 1) * (2 * n + 1) * 100
        /\ ret.recommended_reorder_point = 20 * 7 * Scale + ret.safety_stock

C6_Witness ==
    /\ IsExample6
    /\ ret.safety_stock = 26 * Scale
    /\ ret.recommended_reorder_point = 166 * Scale

\* C10 (as claimed): optimize called with avg_daily_demand = 0 computes with a
\* demand of 0 and returns the sentinel days_of_stock = 999.
C10_ZeroDemandSentinel ==
    (IsOptimize /\ args.avg_daily_demand = Some(0)) =>
        /\ ret.exc = NoExc
        /\ ret.metrics.avg_daily_demand = 0
        /\ ret.days_of_stock = 999 * Scale

-----------------------------------------------------------------------------
(* Inputs of the seasonal analyzer *)

\* how many months draw a jitter other than 0
MaxJittered == 3

\* the `years` argument: 1..MaxYears
MaxYears == 2

\* the ends of the jitter's range, -0.05 and +0.05
JitterEnds == {0 - 50, 50}

\* outcomes of np.random.uniform(0.02, 0.08)
TrendVals == {20, 80}

\* jitter vectors: at most MaxJittered months at an end of the range, the
\* others at 0
JitterVectors ==
    UNION {{[m \in Months |-> IF m \in S THEN e[m] ELSE 0] : e \in [S -> JitterEnds]} :
            S \in {T \in SUBSET Months : Cardinality(T) <= MaxJittered}}

\* SeasonalAnalyzer(), lines 404-405
InitSeasonal ==
    /\ alpha = 300
    /\ beta = 100
    /\ op = "idle"
    /\ args = <<>>
    /\ ret = <<>>

Call_generate_seasonal_data ==
    /\ op = "idle"
    /\ \E years \in 1..MaxYears, jitter \in JitterVectors, yearly_trend \in TrendVals :
          /\ op' = "generate_seasonal_data"
          /\ args' = [years |-> years, jitter |-> jitter,
                      yearly_trend |-> yearly_trend]
          /\ ret' = generate_seasonal_data(years, jitter, yearly_trend)
    /\ UNCHANGED <<alpha, beta>>

NextSeasonal == Call_generate_seasonal_data

SpecSeasonal == InitSeasonal /\ [][NextSeasonal]_vars

IsSeasonal == op = "generate_seasonal_data"

SeasonMonths(seasons) == {seasons[k].month : k \in 1..Len(seasons)}

\* C7: for every outcome of the jitter, peak_seasons and low_seasons each hold
\* exactly 3 distinct months, and no month is in both.
C7_PeakLowDisjoint ==
    IsSeasonal =>
        /\ Len(ret.peak_seasons) = 3
        /\ Len(ret.low_seasons) = 3
        /\ Cardinality(SeasonMonths(ret.peak_seasons)) = 3
        /\ Cardinality(SeasonMonths(ret.low_seasons)) = 3
        /\ SeasonMonths(ret.peak_seasons) \cap SeasonMonths(ret.low_seasons) = {}

\* ties: September + 0.05 = December at the top, January + 0.05 = July at
\* the bottom
C7_Witness ==
    /\ IsSeasonal
    /\ args.jitter[9] = 50
    /\ args.jitter[11] = 50
    /\ args.jitter[1] = 50
    /\ SeasonMonths(ret.peak_seasons) = {"September", "November", "December"}
    /\ SeasonMonths(ret.low_seasons) = {"January", "February", "July"}

-----------------------------------------------------------------------------
(* Inputs of forecast, generate_synthetic_history and bulk_forecast *)

\* longest synthetic history of a direct call
MaxHistory == 3

\* longest list of product ids
MaxProducts == 2

\* clock readings: 2024-02-29, 2024-12-31, 2025-02-28
NowVals == {424, 730, 789}

\* base demands
BaseVals == {0, 100 * Scale}

\* outcomes of np.random.normal(0, 1); the first drives any demand of these
\* inputs below 0
NormalVals == {0 - 10000, 0, 823}

\* outcomes of np.random.uniform(0, 0.15)
R2Vals == {0, 149}

\* product and tenant UUIDs
Uuids == {1, 2}

\* residues hash(str(product_id)) % 100
HashVals == {0, 99}

\* noise streams of a call that draws n outcomes
NoiseStreams(n) == IF n <= 0 THEN {<<0>>} ELSE [1..n -> NormalVals]

\* the clock at line 198 is read after the one at line 55, perhaps past midnight
LaterClock(now) == {now, now + 1}

\* DemandForecaster(alpha = 0.3, beta = 0.1), line 19 of routes/forecast.py
InitService ==
    /\ alpha = 300
    /\ beta = 100
    /\ op = "idle"
    /\ args = <<>>
    /\ ret = <<>>

Call_generate_synthetic_history ==
    /\ op = "idle"
    /\ \E days \in 0..MaxHistory, base_demand \in BaseVals,
          trend \in {0 - DefaultTrend, DefaultTrend},
          noise_std \in {0, DefaultNoiseStd}, weekly_pattern \in BOOLEAN,
          now \in NowVals :
        \E noise \in NoiseStreams(days) :
          /\ op' = "generate_synthetic_history"
          /\ args' = [days |-> days, base_demand |-> base_demand, trend |-> trend,
                      seasonality_amplitude |-> DefaultSeasonalityAmplitude,
                      noise_std |-> noise_std, weekly_pattern |-> weekly_pattern,
                      now |-> now, noise |-> noise]
          /\ ret' = generate_synthetic_history(days, base_demand, trend,
                        DefaultSeasonalityAmplitude, noise_std, weekly_pattern,
                        now, noise, 0)
    /\ UNCHANGED <<alpha, beta>>

Call_forecast ==
    /\ op = "idle"
    /\ \E forecast_days \in 0..MaxHorizon, include_confidence \in BOOLEAN,
          history_days \in 0..MaxHistory, base_demand \in BaseVals,
          now_history \in NowVals, r2_draw \in R2Vals :
        \E now_forecast \in LaterClock(now_history),
           noise \in NoiseStreams(history_days) :
          LET env == [now_history |-> now_history, now_forecast |-> now_forecast,
                      noise |-> noise, offset |-> 0, r2_draw |-> r2_draw]
          IN /\ op' = "forecast"
             /\ args' = [forecast_days |-> forecast_days,
                         include_confidence |-> include_confidence,
                         history_days |-> history_days,
                         base_demand |-> base_demand,
                         env |-> env]
             /\ ret' = forecast(forecast_days, include_confidence, history_days,
                                base_demand, env)
    /\ UNCHANGED <<alpha, beta>>

Call_bulk_forecast ==
    /\ op = "idle"
    /\ \E product_ids \in SeqsUpTo(Uuids, MaxProducts), tenant_id \in {1},
          forecast_days \in 1..MaxHorizon, hash_mod \in [Uuids -> HashVals],
          now_history \in {730} :
        \E faults \in SUBSET (1..Len(product_ids)),
           now_forecast \in LaterClock(now_history) :
          LET request == [product_ids |-> product_ids, tenant_id |-> tenant_id,
                          forecast_days |-> forecast_days]
              env == [hash_mod |-> hash_mod, faults |-> faults,
                      now_history |-> now_history, now_forecast |-> now_forecast,
                      noise |-> <<0, 823, 0 - 10000, 0, 0, 823, 823>>,
                      r2_draw |-> 0]
          IN /\ op' = "bulk_forecast"
             /\ args' = [request |-> request, env |-> env]
             /\ ret' = bulk_forecast(request, env)
    /\ UNCHANGED <<alpha, beta>>

NextService ==
    \/ Call_generate_synthetic_history
    \/ Call_forecast
    \/ Call_bulk_forecast

SpecService == InitService /\ [][NextService]_vars

-----------------------------------------------------------------------------
(* Claims about forecast and bulk_forecast *)

IsForecast == op = "forecast"

IsBulk == op = "bulk_forecast"

\* the calendar day after <<year, month, day>>
NextDay(date) ==
    IF date[3] < DaysInMonth(date[1], date[2]) THEN <<date[1], date[2], date[3] + 1>>
    ELSE IF date[2] < 12 THEN <<date[1], date[2] + 1, 1>>
    ELSE <<date[1] + 1, 1, 1>>

\* C8: for forecast_days >= 1 and history_days >= 1, forecast(forecast_days,
\* True, history_days, base_demand) returns exactly forecast_days predictions,
\* dated on consecutive calendar days of which the first is the day after the
\* day the forecast dates are computed on, each with
\* lower_bound <= predicted_demand <= upper_bound.
C8_ForecastShape ==
    (/\ IsForecast
     /\ args.forecast_days >= 1
     /\ args.history_days >= 1
     /\ args.include_confidence) =>
        /\ ret.exc = NoExc
        /\ Len(ret.predictions) = args.forecast_days
        /\ ret.predictions[1].date = NextDay(Strftime(args.env.now_forecast))
        /\ \A k \in 1..(Len(ret.predictions) - 1) :
              ret.predictions[k + 1].date = NextDay(ret.predictions[k].date)
        /\ \A k \in 1..Len(ret.predictions) :
              /\ DOMAIN ret.predictions[k]
                    = {"date", "predicted_demand", "lower_bound", "upper_bound"}
              /\ ret.predictions[k].lower_bound <= ret.predictions[k].predicted_demand
              /\ ret.predictions[k].predicted_demand <= ret.predictions[k].upper_bound

\* the dates run over the end of 2024 and the history holds a clamped demand
C8_Witness ==
    /\ IsForecast
    /\ args.forecast_days = MaxHorizon
    /\ args.history_days = MaxHistory
    /\ args.include_confidence
    /\ args.base_demand = 100 * Scale
    /\ args.env.now_forecast = 730
    /\ args.env.noise[1] = 0 - 10000
    /\ ret.predictions[1].date = <<2025, 1, 1>>
    /\ ret.predictions[2].date = <<2025, 1, 2>>
    /\ ret.predictions[1].lower_bound < ret.predictions[1].predicted_demand
    /\ ret.predictions[1].predicted_demand < ret.predictions[1].upper_bound

\* C9: whatever items' forecasts raise, bulk_forecast returns; its results
\* hold one entry per requested product id in request order, with status
\* "error" exactly for the items whose forecast raised and "success" for the
\* others; and successful + failed = total_products = the number of ids.
C9_BulkIsolation ==
    IsBulk =>
        LET ids == args.request.product_ids
        IN /\ ret.exc = NoExc
           /\ Len(ret.results) = Len(ids)
           /\ \A k \in 1..Len(ids) :
                 /\ ret.results[k].product_id = UuidStr(ids[k])
                 /\ ret.results[k].status
                       = (IF k \in args.env.faults THEN "error" ELSE "success")
           /\ ret.total_products = Len(ids)
           /\ ret.successful + ret.failed = ret.total_products
           /\ ret.successful = Len(ids) - Cardinality(args.env.faults)

\* the first item fails and the second succeeds
C9_Witness ==
    /\ IsBulk
    /\ Len(args.request.product_ids) = 2
    /\ args.env.faults = {1}
    /\ ret.results[1].status = "error"
    /\ ret.results[2].status = "success"
    /\ ret.successful = 1
    /\ ret.failed = 1

-----------------------------------------------------------------------------
(* Degenerate histories *)

\* C11 (as claimed): forecast called with history_days = 0 does not raise; it
\* returns forecast_days predictions whose predicted_demand is 0.
C11_EmptyHistoryDegenerate ==
    (IsForecast /\ args.history_days = 0) =>
        /\ ret.exc = NoExc
        /\ Len(ret.predictions) = args.forecast_days
        /\ \A k \in 1..Len(ret.predictions) : ret.predictions[k].predicted_demand = 0

\* the half of C11 about double_exponential_smoothing alone: an empty series
\* gives `horizon` zeros, level 0 and trend 0
C11_EmptySeriesZeros ==
    (IsDES /\ args.data = <<>>) =>
        /\ ret.forecasts = Repeat(0, args.forecast_periods)
        /\ ret.level = 0
        /\ ret.trend = 0

-----------------------------------------------------------------------------
(* The order quantity with a zero holding cost *)

IsEoq == op = "calculate_eoq"

-----------------------------------------------------------------------------
(* The classification of optimize *)

\* the (status, risk_level) pair the ordered rules give, on exact integers:
\* 0.5 * rp and 1.5 * rp are compared after doubling both sides
RuleOf(current_stock, rp) ==
    IF 2 * current_stock <= rp THEN <<"critical", "high">>
    ELSE IF current_stock <= rp THEN <<"reorder_needed", "medium">>
    ELSE IF 2 * current_stock <= 3 * rp THEN <<"adequate", "low">>
    ELSE <<"overstocked", "low">>

RiskOf(status) ==
    CASE status = "critical" -> "high"
      [] status = "reorder_needed" -> "medium"
      [] OTHER -> "low"

\* C13: optimize returns the (status, risk_level) pair of the first matching
\* rule among current_stock <= 0.5 rp, <= rp, <= 1.5 rp, else; risk_level is a
\* function of status; and suggestions has 3 entries, the last being the
\* "Current days of stock" line.
C13_Classification ==
    IsOptimize =>
        /\ <<ret.current_status, ret.risk_level>>
              = RuleOf(args.current_stock, ret.recommended_reorder_point)
        /\ ret.risk_level = RiskOf(ret.current_status)
        /\ Len(ret.suggestions) = 3
        /\ ret.suggestions[3] = <<"Current days of stock: {days} days",
                                  Some(ret.days_of_stock)>>

\* the third rule: 77 < 100 <= 115.5
C13_Witness ==
    /\ IsOptimize
    /\ args.current_stock = 100 * Scale
    /\ ret.recommended_reorder_point = 77 * Scale
    /\ ret.current_status = "adequate"
    /\ ret.risk_level = "low"
    /\ ret.suggestions[2][2] = Some(77 * Scale)
    /\ Len(ret.suggestions) = 3

-----------------------------------------------------------------------------
(* Supplied and estimated demand *)

\* C14 (as claimed): optimize uses avg_daily_demand and demand_std whenever
\* the caller supplies them, 0 included: no draw is made unless
\* avg_daily_demand is absent, and the returned metrics hold the supplied
\* values rounded to 2 decimals.
C14_SuppliedValuesUsed ==
    IsOptimize =>
        /\ args.avg_daily_demand # None =>
              /\ args.uniform = None
              /\ ret.metrics.avg_daily_demand = Round2(args.avg_daily_demand[1])
        /\ args.demand_std # None =>
              ret.metrics.demand_variability = Round2(args.demand_std[1])


-----------------------------------------------------------------------------
(* The order of the seasons *)

\* the index, before rounding, of the month a season entry or a recommendation
\* names
IndexOfMonth(jitter, name) ==
    MonthlyIndices(jitter)[CHOOSE m \in Months : MonthNames[m] = name]

MaxIndex(jitter) ==
    CHOOSE x \in {MonthlyIndices(jitter)[m] : m \in Months} :
        \A m \in Months : MonthlyIndices(jitter)[m] <= x

MinIndex(jitter) ==
    CHOOSE x \in {MonthlyIndices(jitter)[m] : m \in Months} :
        \A m \in Months : MonthlyIndices(jitter)[m] >= x

\* the months of a season list, as a set of month numbers
MonthNumbers(seasons) ==
    {m \in Months : \E k \in 1..Len(seasons) : seasons[k].month = MonthNames[m]}

\* C15 (as claimed): peak_seasons lists the 3 highest-index months in
\* descending index order, low_seasons lists the 3 lowest-index months in
\* ascending index order, so that low_seasons[0] has the smallest index of all
\* 12; the "Lowest demand in" recommendation names a month of smallest index
\* and the "Peak demand expected in" recommendation one of largest index.
C15_SeasonOrder ==
    IsSeasonal =>
        LET idx == MonthlyIndices(args.jitter)
            peak == ret.peak_seasons
            low == ret.low_seasons
        IN /\ \A m \in MonthNumbers(peak), m2 \in Months \ MonthNumbers(peak) :
                 idx[m] >= idx[m2]
           /\ \A m \in MonthNumbers(low), m2 \in Months \ MonthNumbers(low) :
                 idx[m] <= idx[m2]
           /\ \A k \in 1..2 :
                 IndexOfMonth(args.jitter, peak[k].month)
                    >= IndexOfMonth(args.jitter, peak[k + 1].month)
           /\ \A k \in 1..2 :
                 IndexOfMonth(args.jitter, low[k].month)
                    <= IndexOfMonth(args.jitter, low[k + 1].month)
           /\ IndexOfMonth(args.jitter, low[1].month) = MinIndex(args.jitter)
           /\ IndexOfMonth(args.jitter, ret.recommendations[3][2]) = MinIndex(args.jitter)
           /\ IndexOfMonth(args.jitter, ret.recommendations[1][2]) = MaxIndex(args.jitter)

\* what the code does give: both lists are slices of the one descending sort,
\* so the peak half of C15 holds and low_seasons holds the 3 lowest months in
\* descending order, the smallest last
C15_DescendingSlices ==
    IsSeasonal =>
        LET idx == MonthlyIndices(args.jitter)
            peak == ret.peak_seasons
            low == ret.low_seasons
        IN /\ \A m \in MonthNumbers(peak), m2 \in Months \ MonthNumbers(peak) :
                 idx[m] >= idx[m2]
           /\ \A m \in MonthNumbers(low), m2 \in Months \ MonthNumbers(low) :
                 idx[m] <= idx[m2]
           /\ \A k \in 1..2 :
                 /\ IndexOfMonth(args.jitter, peak[k].month)
                       >= IndexOfMonth(args.jitter, peak[k + 1].month)
                 /\ IndexOfMonth(args.jitter, low[k].month)
                       >= IndexOfMonth(args.jitter, low[k + 1].month)
           /\ IndexOfMonth(args.jitter, low[3].month) = MinIndex(args.jitter)
           /\ ret.recommendations[3][2] = low[1].month
           /\ IndexOfMonth(args.jitter, ret.recommendations[1][2]) = MaxIndex(args.jitter)

-----------------------------------------------------------------------------
(* The recurrence of double exponential smoothing *)

\* the claimed recurrence: the level and trend after the values at Python
\* indices 1..n have been applied, starting from level = values[0] and
\* trend = values[1] - values[0]
RECURSIVE HoltState(_, _)
HoltState(values, n) ==
    IF n = 0 THEN [level |-> values[1], trend |-> values[2] - values[1]]
    ELSE LET prev == HoltState(values, n - 1)
             value == values[n + 1]
             new_level == Mul(alpha, value)
                            + Mul(Scale - alpha, prev.level + prev.trend)
         IN [level |-> new_level,
             trend |-> Mul(beta, new_level - prev.level)
                         + Mul(Scale - beta, prev.trend)]

\* C16: for a series of length >= 2 the returned level and trend are those of
\* the recurrence applied to the values at indices 1..n-1 in order, unclamped,
\* and the forecast for step h in 1..horizon is max(0, level + h * trend).
C16_HoltRecurrence ==
    (IsDES /\ Len(args.data) >= 2) =>
        LET final == HoltState(args.data, Len(args.data) - 1)
        IN /\ ret.level = final.level
           /\ ret.trend = final.trend
           /\ Len(ret.forecasts) = args.forecast_periods
           /\ \A h \in 1..args.forecast_periods :
                 ret.forecasts[h] = Max(0, final.level + h * final.trend)

\* a falling series: the trend is negative, the level is not clamped, and the
\* later forecasts are clamped to 0
C16_Witness ==
    /\ IsDES
    /\ alpha = 300
    /\ beta = 300
    /\ args.data = <<7500, 0, 0 - 5000>>
    /\ args.forecast_periods = MaxHorizon
    /\ ret.trend < 0
    /\ ret.level + ret.trend < 0
    /\ ret.forecasts[1] = 0
    /\ ret.forecasts[MaxHorizon] = 0

-----------------------------------------------------------------------------
(* The dates of the synthetic history *)

IsHistory == op = "generate_synthetic_history"

\* C17 (as claimed): generate_synthetic_history(days, ...) returns `days`
\* points on consecutive calendar days in ascending order, the last of them
\* dated today, the day the call reads the clock; and every demand is >= 0.
C17_HistoryEndsToday ==
    IsHistory =>
        /\ Len(ret) = args.days
        /\ \A k \in 1..(Len(ret) - 1) : ret[k + 1].date = NextDay(ret[k].date)
        /\ Len(ret) >= 1 => ret[Len(ret)].date = Strftime(args.now)
        /\ \A k \in 1..Len(ret) : ret[k].demand >= 0

\* what the code does give: the last point is dated the day before the call,
\* so a forecast that starts tomorrow leaves today between the two
C17_HistoryEndsYesterday ==
    IsHistory =>
        /\ Len(ret) = args.days
        /\ \A k \in 1..(Len(ret) - 1) : ret[k + 1].date = NextDay(ret[k].date)
        /\ Len(ret) >= 1 => NextDay(ret[Len(ret)].date) = Strftime(args.now)
        /\ \A k \in 1..Len(ret) : ret[k].demand >= 0

-----------------------------------------------------------------------------
(* Results of the stock-optimization endpoint *)

IsOptimizeStock == op = "optimize_stock"

\* C18 (as claimed): every result of the stock-optimization endpoint has
\* recommended_reorder_point >= 0, recommended_order_quantity >= 0,
\* safety_stock >= 0, and days_of_stock >= 0 or equal to the sentinel 999.
C18_Original ==
    IsOptimizeStock =>
        /\ ret.exc = NoExc
        /\ ret.recommended_reorder_point >= 0
        /\ ret.recommended_order_quantity >= 0
        /\ ret.safety_stock >= 0
        /\ (ret.days_of_stock >= 0 \/ ret.days_of_stock = 999 * Scale)

\* C18 (amended): every result of the endpoint has recommended_reorder_point,
\* recommended_order_quantity and safety_stock >= 0; days_of_stock is
\* current_stock / demand rounded to 1 decimal, with the demand drawn from
\* [10, 50], so it is >= 0 when current_stock >= 0 and <= 0 when
\* current_stock < 0.
C18_Amended ==
    IsOptimizeStock =>
        /\ ret.exc = NoExc
        /\ ret.recommended_reorder_point >= 0
        /\ ret.recommended_order_quantity >= 0
        /\ ret.safety_stock >= 0
        /\ ret.days_of_stock = Round1(Div(args.request.current_stock, args.uniform[1]))
        /\ args.request.current_stock >= 0 => ret.days_of_stock >= 0
        /\ args.request.current_stock < 0 => ret.days_of_stock <= 0

\* the longest lead time and a negative stock
C18_Witness ==
    /\ IsOptimizeStock
    /\ args.request.lead_time_days = MaxLeadTime
    /\ args.request.service_level = Scale
    /\ args.request.current_stock = 0 - 1000
    /\ args.uniform = Some(10000)
    /\ ret.days_of_stock = 0 - 100
    /\ ret.recommended_reorder_point > 900 * Scale
    /\ ret.safety_stock > 0
    /\ ret.recommended_order_quantity > 0

=============================================================================
